---- MODULE Spec2Model ----
(***************************************************************************)
(* Tag-and-probe selection of egamma_tnp.                                  *)
(*                                                                         *)
(*   TagNProbeFromNTuples  (src/src/egamma_tnp/ntuple_efficiency.py)       *)
(*   BaseTagNProbe         (src/src/egamma_tnp/_base_tagnprobe.py)         *)
(*                                                                         *)
(* Units.  Masses are integers in units of 1e-4 GeV (91.1876 GeV is        *)
(* 911876), pseudorapidities in units of 0.1 (2.5 is 25), transverse       *)
(* momenta in GeV.  Comparisons are exact integer comparisons.             *)
(***************************************************************************)
EXTENDS Integers, Sequences, FiniteSets, TLC

VARIABLES
    nt,         \* the TagNProbeFromNTuples object (its attributes)
    ntPc,       \* position of the caller of the NTuples query: "idle" | "done" |
                \* "again" (the selection was run a second time on the same batch) |
                \* "returned"
                \* ("absent" when no TagNProbeFromNTuples was constructed)
    ntCall,     \* arguments of the NTuples query in progress / last made
    batch,      \* the caller's event batch object (current content)
    batch0,     \* content of the caller's batch when the query was made
    ntOut,      \* locals and return value of _find_probes
    ntPrev,     \* locals and return value of the previous call of _find_probes on
                \* the same batch (when the selection is run twice in succession)
    base,       \* the BaseTagNProbe object (its attributes, default_vars included)
    fileset,    \* dataset name -> metadata and event fields
    callerVars, \* the list object the caller passes as vars
    q,          \* the BaseTagNProbe query in progress / last made
    inv,        \* dataset name -> the invocation of data_manipulation for it
    nQueries,   \* number of BaseTagNProbe queries made so far
    returned,   \* what the last query returned to its caller
    made        \* the object the last constructor call returned

vars == <<nt, ntPc, ntCall, batch, batch0, ntOut, ntPrev, base, fileset, callerVars, q, inv, nQueries,
          returned, made>>
ntVars == <<nt, ntPc, ntCall, batch, batch0, ntOut, ntPrev>>
baseVars == <<base, fileset, callerVars, q, inv, nQueries>>

None == "None"

\* a mass_range argument: None, a single number, or a tuple of two numbers
NoMassRange == [kind |-> "None", a |-> 0, b |-> 0]
Scalar(w) == [kind |-> "scalar", a |-> w, b |-> 0]
Tuple(lo, hi) == [kind |-> "tuple", a |-> lo, b |-> hi]

Abs(x) == IF x < 0 THEN -x ELSE x

Range(s) == {s[i] : i \in 1..Len(s)}

(***************************************************************************)
(* Bounds of the model.                                                    *)
(***************************************************************************)
MaxEvents == 2
MaxQueries == 2

(***************************************************************************)
(* Constants of the program.                                               *)
(***************************************************************************)
ZMass == 911876
CutAndCountWindow == 300000
RangeLow == 500000
RangeHigh == 1300000

(***************************************************************************)
(* Event batches.  An event carries the columns _find_probes reads; id is  *)
(* the row index of the event in the caller's batch.                       *)
(***************************************************************************)
Nominal ==
    [tag_Ele_pt |-> 40, tag_Ele_eta |-> 10, tag_Ele_q |-> 1, el_q |-> -1,
     el_pt |-> 30, el_eta |-> 10, el_sc_eta |-> 12, el_phi |-> 3, el_sc_phi |-> 4,
     pair_mass |-> 911876, filter |-> 1, cutbased |-> 1, run |-> 1]

MassValues ==
    {500000, 500001, 611876, 611877, 1211875, 1211876, 1299999, 1300000}

EventValues ==
    {Nominal}
    \cup {[Nominal EXCEPT !.tag_Ele_pt = 35]}
    \cup {[Nominal EXCEPT !.tag_Ele_eta = x] : x \in {25, -30}}
    \cup {[Nominal EXCEPT !.el_q = 1]}
    \cup {[Nominal EXCEPT !.el_pt = 5]}
    \cup {[Nominal EXCEPT !.el_eta = 12]}
    \cup {[Nominal EXCEPT !.pair_mass = m] : m \in MassValues}
    \cup {[Nominal EXCEPT !.filter = f] : f \in {0, 2}}
    \cup {[Nominal EXCEPT !.cutbased = 0]}
    \cup {[Nominal EXCEPT !.run = 2]}

WithId(e, i) ==
    [id |-> i, tag_Ele_pt |-> e.tag_Ele_pt, tag_Ele_eta |-> e.tag_Ele_eta,
     tag_Ele_q |-> e.tag_Ele_q, el_q |-> e.el_q, el_pt |-> e.el_pt,
     el_eta |-> e.el_eta, el_sc_eta |-> e.el_sc_eta, el_phi |-> e.el_phi,
     el_sc_phi |-> e.el_sc_phi, pair_mass |-> e.pair_mass, filter |-> e.filter,
     cutbased |-> e.cutbased, run |-> e.run]

Batches ==
    UNION {{[i \in 1..n |-> WithId(s[i], i)] : s \in [1..n -> EventValues]} : n \in 0..MaxEvents}

\* the batch of four events of the selection scenario: tag pt 40, 20, 40, 40,
\* probe pt 30, 30, 30, 2, opposite charge T, T, F, T, pair mass 91, filter
\* flags 1, 0, 1, 1
ScenarioBatch ==
    <<WithId([Nominal EXCEPT !.pair_mass = 910000], 1),
      WithId([Nominal EXCEPT !.pair_mass = 910000, !.tag_Ele_pt = 20, !.filter = 0], 2),
      WithId([Nominal EXCEPT !.pair_mass = 910000, !.el_q = 1], 3),
      WithId([Nominal EXCEPT !.pair_mass = 910000, !.el_pt = 2], 4)>>

\* events[mask], a new array holding the rows whose mask value is true, is
\* written SelectSeq(events, mask) throughout.

(***************************************************************************)
(* TagNProbeFromNTuples                                                    *)
(***************************************************************************)
NTConfigs ==
    [filter : {"filter"}, tags_pt_cut : {35}, probes_pt_cut : {5}, tags_abseta_cut : {25},
     cutbased_id : {None, "cutbased"}, goldenjson : {None, "golden.json"},
     extra_filter : {None, "same", "barrel"}, extra_filter_args : {[max_abseta |-> 11]},
     use_sc_eta : BOOLEAN, use_sc_phi : BOOLEAN]

\* the external row predicates the caller may configure:
\*   "same"   returns the batch it was given (the same object),
\*   "barrel" returns events[abs(events.el_eta) < max_abseta] (a new object)
extra_filter(name, events, args) ==
    IF name = "same" THEN events
    ELSE SelectSeq(events, LAMBDA e : Abs(e.el_eta) < args.max_abseta)

extra_filter_returns_new(name) == name = "barrel"

\* coffea.lumi_tools.LumiMask(goldenjson)(run, lumi): run 1 is certified
LumiMask(goldenjson, e) == e.run = 1

\* mutant of pass_pt_probes: the threshold made inclusive
pass_pt_probes_inclusive(self, e) == e.el_pt >= self.probes_pt_cut

pass_pt_probes(self, e) == e.el_pt > self.probes_pt_cut

pass_cutbased_id(self, e) ==
    IF self.cutbased_id # None THEN e.cutbased = 1 ELSE TRUE

\* mutants of in_mass_window: a bound made inclusive
in_mass_window_inclusive_z(e, cut_and_count) ==
    IF cut_and_count
    THEN Abs(e.pair_mass - ZMass) <= CutAndCountWindow
    ELSE (e.pair_mass > RangeLow) /\ (e.pair_mass < RangeHigh)

in_mass_window_inclusive_low(e, cut_and_count) ==
    IF cut_and_count
    THEN Abs(e.pair_mass - ZMass) < CutAndCountWindow
    ELSE (e.pair_mass >= RangeLow) /\ (e.pair_mass < RangeHigh)

in_mass_window(e, cut_and_count) ==
    IF cut_and_count
    THEN Abs(e.pair_mass - ZMass) < CutAndCountWindow
    ELSE (e.pair_mass > RangeLow) /\ (e.pair_mass < RangeHigh)

all_probe_events(self, events, cut_and_count) ==
    SelectSeq(events, LAMBDA e : pass_cutbased_id(self, e) /\ in_mass_window(e, cut_and_count)
                              /\ pass_pt_probes(self, e))

\* mutant of passing_locs: any non-zero decision taken as a pass
passing_locs_nonzero(e) == e.filter # 0

passing_locs(e) == e.filter = 1

passing_probe_events(all) == SelectSeq(all, LAMBDA e : passing_locs(e))

\* mutant of failing_probe_events: failing taken as "filter equals 0"
failing_probe_events_eq0(all) == SelectSeq(all, LAMBDA e : e.filter = 0)

failing_probe_events(all) == SelectSeq(all, LAMBDA e : ~passing_locs(e))

NT_find_probe_events(self, events, cut_and_count) ==
    LET all == all_probe_events(self, events, cut_and_count)
    IN  [all |-> all, passing |-> passing_probe_events(all), failing |-> failing_probe_events(all)]

\* the batch after the external filter and the luminosity mask, and whether the
\* local name `events` still refers to the caller's object
\* mutant of after_extra_filter: the configured function is never called
after_extra_filter_skipped(self, events) == events

after_extra_filter(self, events) ==
    IF self.extra_filter # None
    THEN extra_filter(self.extra_filter, events, self.extra_filter_args)
    ELSE events

after_lumimask(self, events) ==
    IF self.goldenjson # None
    THEN SelectSeq(events, LAMBDA e : LumiMask(self.goldenjson, e))
    ELSE events

events_is_callers(self) ==
    /\ (self.extra_filter = None \/ ~extra_filter_returns_new(self.extra_filter))
    /\ self.goldenjson = None

\* mutant of set_sc_coordinates: the two columns are exchanged instead of the
\* supercluster column being copied
set_sc_coordinates_exchanged(self, events) ==
    [i \in 1..Len(events) |->
        [events[i] EXCEPT
            !.el_eta = IF self.use_sc_eta THEN events[i].el_sc_eta ELSE @,
            !.el_sc_eta = IF self.use_sc_eta THEN events[i].el_eta ELSE @,
            !.el_phi = IF self.use_sc_phi THEN events[i].el_sc_phi ELSE @,
            !.el_sc_phi = IF self.use_sc_phi THEN events[i].el_phi ELSE @]]

\* events["el_eta"] = events.el_sc_eta ; events["el_phi"] = events.el_sc_phi
set_sc_coordinates(self, events) ==
    [i \in 1..Len(events) |->
        [events[i] EXCEPT
            !.el_eta = IF self.use_sc_eta THEN events[i].el_sc_eta ELSE @,
            !.el_phi = IF self.use_sc_phi THEN events[i].el_sc_phi ELSE @]]

\* mutant of pass_tag_cuts: the opposite-charge requirement is missing
pass_tag_cuts_no_charge(self, e) ==
    /\ e.tag_Ele_pt > self.tags_pt_cut
    /\ Abs(e.tag_Ele_eta) < self.tags_abseta_cut

pass_tag_cuts(self, e) ==
    /\ e.tag_Ele_pt > self.tags_pt_cut
    /\ Abs(e.tag_Ele_eta) < self.tags_abseta_cut
    /\ e.tag_Ele_q * e.el_q = -1

\* mutant of zip_probes: pair_mass is zipped in both modes
zip_probes_always_mass(events, cut_and_count) ==
    [i \in 1..Len(events) |->
        [pt |-> events[i].el_pt, eta |-> events[i].el_eta, phi |-> events[i].el_phi,
         pair_mass |-> events[i].pair_mass]]

\* the fields of the array dak.zip builds (an array without rows has them too)
zip_fields(cut_and_count) ==
    IF cut_and_count THEN {"pt", "eta", "phi"} ELSE {"pt", "eta", "phi", "pair_mass"}

zip_probes(events, cut_and_count) ==
    [i \in 1..Len(events) |->
        IF cut_and_count
        THEN [pt |-> events[i].el_pt, eta |-> events[i].el_eta, phi |-> events[i].el_phi]
        ELSE [pt |-> events[i].el_pt, eta |-> events[i].el_eta, phi |-> events[i].el_phi,
              pair_mass |-> events[i].pair_mass]]

\* mutant of NT_find_probes: the supercluster coordinates are substituted
\* first, before the external filter and the luminosity mask
NT_find_probes_sc_first(self, events, cut_and_count) ==
    LET sc       == set_sc_coordinates(self, events)
        filtered == after_extra_filter(self, sc)
        lumi     == after_lumimask(self, filtered)
        tagged   == SelectSeq(lumi, LAMBDA e : pass_tag_cuts(self, e))
        sel      == NT_find_probe_events(self, tagged, cut_and_count)
    IN  [status |-> "ok",
         extra_filter_arg |-> IF self.extra_filter # None THEN sc ELSE <<>>,
         filtered_events |-> filtered,
         lumimask_arg |-> IF self.goldenjson # None THEN filtered ELSE <<>>,
         lumi_events |-> lumi,
         all_probe_events |-> sel.all,
         passing_probe_events |-> sel.passing,
         failing_probe_events |-> sel.failing,
         passing_probes |-> zip_probes(sel.passing, cut_and_count),
         failing_probes |-> zip_probes(sel.failing, cut_and_count),
         passing_fields |-> zip_fields(cut_and_count),
         failing_fields |-> zip_fields(cut_and_count),
         callers_batch |-> sc]

\* _find_probes: its locals, its return value and the caller's batch afterwards
NT_find_probes(self, events, cut_and_count) ==
    LET filtered == after_extra_filter(self, events)
        lumi     == after_lumimask(self, filtered)
        sc       == set_sc_coordinates(self, lumi)
        tagged   == SelectSeq(sc, LAMBDA e : pass_tag_cuts(self, e))
        sel      == NT_find_probe_events(self, tagged, cut_and_count)
    IN  [status |-> "ok",
         extra_filter_arg |-> IF self.extra_filter # None THEN events ELSE <<>>,
         filtered_events |-> filtered,
         lumimask_arg |-> IF self.goldenjson # None THEN filtered ELSE <<>>,
         lumi_events |-> lumi,
         all_probe_events |-> sel.all,
         passing_probe_events |-> sel.passing,
         failing_probe_events |-> sel.failing,
         passing_probes |-> zip_probes(sel.passing, cut_and_count),
         failing_probes |-> zip_probes(sel.failing, cut_and_count),
         passing_fields |-> zip_fields(cut_and_count),
         failing_fields |-> zip_fields(cut_and_count),
         callers_batch |-> IF events_is_callers(self) THEN sc ELSE events]

NoOut ==
    [status |-> "none", extra_filter_arg |-> <<>>, filtered_events |-> <<>>,
     lumimask_arg |-> <<>>, lumi_events |-> <<>>, all_probe_events |-> <<>>,
     passing_probe_events |-> <<>>, failing_probe_events |-> <<>>,
     passing_probes |-> <<>>, failing_probes |-> <<>>,
     passing_fields |-> {}, failing_fields |-> {}, callers_batch |-> <<>>]

\* what a query hands back: nothing yet, an exception, the description
\* apply_to_fileset built (to_compute), or the first element of what
\* dask.compute made of it (computed[0]); computes counts the calls of
\* dask.compute, built tells whether apply_to_fileset had returned
NoResult == [value |-> "none", compute |-> FALSE, computes |-> 0, built |-> FALSE]

Raised == [NoResult EXCEPT !.value = "raised"]

\* mutant of query_result: the description is returned whatever compute is
query_result_always_deferred(compute, built) ==
    [value |-> "to_compute", compute |-> compute, computes |-> 0, built |-> built]

\* if compute: computed = dask.compute(to_compute, ...); return computed[0]
\* return to_compute
query_result(compute, built) ==
    [value |-> IF compute THEN "computed[0]" ELSE "to_compute",
     compute |-> compute, computes |-> IF compute THEN 1 ELSE 0, built |-> built]

NothingReturned == returned = NoResult

NTInit ==
    /\ nt \in NTConfigs
    /\ ntPc = "idle"
    /\ ntCall = [cut_and_count |-> TRUE, mass_range |-> NoMassRange]
    /\ batch = <<>>
    /\ batch0 = <<>>
    /\ ntOut = NoOut
    /\ ntPrev = NoOut

NTWindows == {NoMassRange, Scalar(200000), Tuple(600000, 1200000)}

\* get_tnp_arrays(cut_and_count=...) over a fileset whose dataset holds batch b;
\* the method takes no mass_range, so a caller who passes one gets a TypeError
NT_get_tnp_arrays ==
    /\ ntPc = "idle"
    /\ \E cc \in BOOLEAN, mr \in NTWindows :
        /\ ntCall' = [cut_and_count |-> cc, mass_range |-> mr]
        /\ IF mr # NoMassRange
           THEN /\ ntOut' = [NoOut EXCEPT !.status = "TypeError"]
                /\ batch0' = <<>>
                /\ batch' = <<>>
           ELSE \E b \in Batches \cup {ScenarioBatch} :
                /\ ntOut' = NT_find_probes(nt, b, cc)
                /\ batch0' = b
                /\ batch' = ntOut'.callers_batch
    /\ ntPc' = "done"
    /\ returned' = NoResult
    /\ UNCHANGED <<nt, ntPrev, made>>
    /\ UNCHANGED baseVars

\* the selection is run once more, with the same configuration, on the batch
\* object the previous run was given
NT_find_probes_again ==
    /\ ntPc = "done"
    /\ ntOut.status = "ok"
    /\ ntPrev' = ntOut
    /\ ntOut' = NT_find_probes(nt, batch, ntCall.cut_and_count)
    /\ batch' = ntOut'.callers_batch
    /\ ntPc' = "again"
    /\ UNCHANGED <<nt, ntCall, batch0, returned, made>>
    /\ UNCHANGED baseVars

\* the rest of get_tnp_arrays after apply_to_fileset: compute or not, return
NT_return ==
    /\ ntPc \in {"done", "again"}
    /\ ntPc' = "returned"
    /\ IF ntOut.status = "TypeError"
       THEN returned' = Raised
       ELSE \E compute \in BOOLEAN : returned' = query_result(compute, TRUE)
    /\ ntCall' = [cut_and_count |-> TRUE, mass_range |-> NoMassRange]
    /\ batch' = <<>>
    /\ batch0' = <<>>
    /\ ntOut' = NoOut
    /\ ntPrev' = NoOut
    /\ UNCHANGED <<nt, made>>
    /\ UNCHANGED baseVars

(***************************************************************************)
(* BaseTagNProbe                                                           *)
(***************************************************************************)
DefaultHalfWidth == 300000
DefaultLow == 500000
DefaultHigh == 1300000

Order == <<"d1", "d2">>
Datasets == Range(Order)
Before(e, d) == \E i, j \in 1..Len(Order) : Order[i] = e /\ Order[j] = d /\ i < j

\* events.metadata of a dataset and whether its events carry a truePU field
DatasetKinds ==
    {m \in [isMC : BOOLEAN, pileupJSON : BOOLEAN, pileupData : BOOLEAN, pileupMC : BOOLEAN,
            truePU : BOOLEAN] :
        /\ (~m.isMC => ~m.truePU /\ ~m.pileupData /\ ~m.pileupMC)
        /\ (m.pileupMC => m.pileupData)
        /\ (m.pileupJSON /\ m.pileupData => m.pileupMC /\ m.truePU)}

Ops == {"get_tnp_arrays", "get_passing_and_failing_probes",
        "get_1d_pt_eta_phi_tnp_histograms", "get_nd_tnp_histograms"}
HistOps == {"get_1d_pt_eta_phi_tnp_histograms", "get_nd_tnp_histograms"}

MassRanges == {NoMassRange, Scalar(200000), Tuple(600000, 1200000)}

\* if mass_range is None: 30 for cut and count, (50, 130) otherwise
\* mutants of resolve_mass_range: the two defaults exchanged; the argument ignored
resolve_mass_range_swapped(cut_and_count, mass_range) ==
    IF mass_range.kind = "None"
    THEN IF cut_and_count THEN Tuple(DefaultLow, DefaultHigh) ELSE Scalar(DefaultHalfWidth)
    ELSE mass_range

resolve_mass_range_default_only(cut_and_count, mass_range) ==
    IF cut_and_count THEN Scalar(DefaultHalfWidth) ELSE Tuple(DefaultLow, DefaultHigh)

resolve_mass_range(cut_and_count, mass_range) ==
    IF mass_range.kind = "None"
    THEN IF cut_and_count THEN Scalar(DefaultHalfWidth) ELSE Tuple(DefaultLow, DefaultHigh)
    ELSE mass_range

isinstance_tuple(mass_range) == mass_range.kind = "tuple"

\* the two checks that raise ValueError
\* mutant of mass_range_rejected: the second check is missing
mass_range_rejected_first_only(cut_and_count, mass_range) ==
    cut_and_count /\ isinstance_tuple(mass_range)

mass_range_rejected(cut_and_count, mass_range) ==
    \/ (cut_and_count /\ isinstance_tuple(mass_range))
    \/ (~cut_and_count /\ ~isinstance_tuple(mass_range))

\* list.remove(x): the first occurrence of x goes
RemoveFirst(s, x) ==
    LET i == CHOOSE k \in 1..Len(s) : s[k] = x /\ \A j \in 1..(k - 1) : s[j] # x
    IN  SubSeq(s, 1, i - 1) \o SubSeq(s, i + 1, Len(s))

\* the list object the query's name `vars` is bound to
VarsList == IF q.vars_ref = "caller" THEN callerVars ELSE base.default_vars

\* mutant of metadata_isMC: a correction source taken as a sign of simulation
metadata_isMC_or_json(m) == m.isMC \/ m.pileupJSON

metadata_isMC(m) == m.isMC

has_correction(m) == m.pileupJSON \/ (m.pileupData /\ m.pileupMC)

pileup_key(m) == IF m.truePU THEN "truePU" ELSE "Pileup_nTrueInt"

\* pileup_corr as the pileup block binds it ("" when it binds nothing)
pileup_corr(m) ==
    IF ~metadata_isMC(m) THEN ""
    ELSE IF m.pileupJSON THEN "load_correction(pileupJSON)"
    ELSE IF m.pileupData /\ m.pileupMC THEN "create_correction(pileupData, pileupMC)"
    ELSE ""

\* vars after the pileup block that precedes find_probes
vars_before_find(m, vs) ==
    IF metadata_isMC(m) THEN Append(vs, pileup_key(m)) ELSE vs

\* find_probes (implemented by the subclasses): an array with the fields in vars,
\* a boolean field for each filter, and pair_mass unless cut_and_count
probes_fields(self, cut_and_count, vs) ==
    Range(vs) \cup Range(self.filters) \cup (IF cut_and_count THEN {} ELSE {"pair_mass"})

ProbeCollections ==
    {<<[id |-> 1, filter |-> FALSE]>>,
     <<[id |-> 1, filter |-> TRUE], [id |-> 2, filter |-> FALSE], [id |-> 3, filter |-> TRUE]>>}

\* probes[probes[filter]] and probes[~probes[filter]]
split_passing(probes) == SelectSeq(probes, LAMBDA p : p.filter)

split_failing(probes) == SelectSeq(probes, LAMBDA p : ~p.filter)

\* which field the weight is computed from once probes are split ("" when none is)
weight_field(m, fields) ==
    IF metadata_isMC(m) /\ has_correction(m)
    THEN IF "truePU" \in fields THEN "truePU"
         ELSE IF "Pileup_nTrueInt" \in fields THEN "Pileup_nTrueInt"
         ELSE ""
    ELSE ""

\* vars.remove(x) raises ValueError when x is not in the list
remove_raises(m, fields, vs) ==
    weight_field(m, fields) # "" /\ weight_field(m, fields) \notin Range(vs)

\* vars after the pileup block that follows find_probes
vars_after_weights(m, fields, vs) ==
    IF weight_field(m, fields) # "" /\ ~remove_raises(m, fields, vs)
    THEN RemoveFirst(vs, weight_field(m, fields))
    ELSE vs

\* the plateau cut and the three region mappings of a 1-D histogram query
NoHistArgs ==
    [plateau_cut |-> "None", eta_regions_pt |-> "None", eta_regions_eta |-> "None",
     eta_regions_phi |-> "None"]

CustomHistArgs ==
    [plateau_cut |-> "35", eta_regions_pt |-> "{barrel: [0.0, 1.4442]}",
     eta_regions_eta |-> "{entire: [0.0, 2.5]}", eta_regions_phi |-> "{endcap: [1.566, 2.5]}"]

HistArgs == {NoHistArgs, CustomHistArgs}

\* the keyword arguments are not given to the filler at all
NotPassed ==
    [plateau_cut |-> "", eta_regions_pt |-> "", eta_regions_eta |-> "", eta_regions_phi |-> ""]

\* the method the histogram query makes data_manipulation of
stage(cut_and_count) ==
    IF cut_and_count THEN "_make_cutncount_histograms" ELSE "_make_mll_histograms"

pt_eta_phi_1d(op) == op = "get_1d_pt_eta_phi_tnp_histograms"

\* plateau_cut and eta_regions_* of the partial: the caller's in the 1-D query,
\* None in the N-D query
stage_args(op, args) == IF pt_eta_phi_1d(op) THEN args ELSE NoHistArgs

\* the cut_and_count each stage calls find_probes with
stage_cut_and_count(st) == st = "_make_cutncount_histograms"

\* what the stage gives its filler besides the probes and vars
fill_args(op, args) == IF pt_eta_phi_1d(op) THEN args ELSE NotPassed

\* mutant of filler: the cut-and-count fillers are called by both stages
filler_cutncount_always(op, cut_and_count) ==
    IF op = "get_1d_pt_eta_phi_tnp_histograms"
    THEN "fill_pt_eta_phi_cutncount_histograms"
    ELSE "fill_nd_cutncount_histograms"

filler(op, cut_and_count) ==
    IF op = "get_1d_pt_eta_phi_tnp_histograms"
    THEN IF cut_and_count THEN "fill_pt_eta_phi_cutncount_histograms"
         ELSE "fill_pt_eta_phi_mll_histograms"
    ELSE IF cut_and_count THEN "fill_nd_cutncount_histograms" ELSE "fill_nd_mll_histograms"

NoArgs == [cut_and_count |-> TRUE, mass_range |-> NoMassRange, vars |-> <<>>]

NoInv ==
    [pc |-> "idle", entry_vars |-> <<>>, handed |-> NoArgs, fields |-> {},
     probes |-> <<>>, passing |-> <<>>, failing |-> <<>>,
     pileup_corr |-> "", PU_weight |-> FALSE, weight_from |-> "", filler |-> "",
     fill_vars |-> <<>>, stage |-> "", stage_args |-> NoHistArgs, fill_args |-> NotPassed]

NoQuery ==
    [status |-> "idle", op |-> "", cut_and_count |-> TRUE, given |-> NoMassRange,
     mass_range |-> NoMassRange, vars_ref |-> "default", vars0 |-> <<>>,
     hist_args |-> NoHistArgs]

\* no BaseTagNProbe was constructed
BaseAbsent ==
    /\ base = [filters |-> <<>>, default_vars |-> <<>>]
    /\ fileset = <<>>
    /\ callerVars = <<>>
    /\ q = [NoQuery EXCEPT !.status = "absent"]
    /\ inv = <<>>
    /\ nQueries = 0

\* no TagNProbeFromNTuples was constructed
NTAbsent ==
    /\ nt = <<>>
    /\ ntPc = "absent"
    /\ ntCall = [cut_and_count |-> TRUE, mass_range |-> NoMassRange]
    /\ batch = <<>>
    /\ batch0 = <<>>
    /\ ntOut = NoOut
    /\ ntPrev = NoOut

BaseInit ==
    /\ base = [filters |-> <<"filter">>, default_vars |-> <<"el_pt", "el_eta", "el_phi">>]
    /\ fileset \in [Datasets -> DatasetKinds]
    /\ callerVars = <<"el_pt", "el_sc_eta", "el_phi">>
    /\ q = NoQuery
    /\ inv = [d \in Datasets |-> NoInv]
    /\ nQueries = 0

SetVarsList(vs) ==
    IF q.vars_ref = "caller"
    THEN callerVars' = vs /\ UNCHANGED base
    ELSE base' = [base EXCEPT !.default_vars = vs] /\ UNCHANGED callerVars

\* A query method up to its call of apply_to_fileset: the mass window is
\* resolved and checked, vars is bound, data_manipulation is built.
Query(ops) ==
    /\ q.status = "idle"
    /\ nQueries < MaxQueries
    /\ \E op \in ops, cc \in BOOLEAN, mr \in MassRanges, vr \in {"default", "caller"} :
        \E ha \in (IF pt_eta_phi_1d(op) THEN HistArgs ELSE {NoHistArgs}) :
        LET resolved == resolve_mass_range(cc, mr)
        IN  q' = [status |-> IF mass_range_rejected(cc, resolved) THEN "ValueError" ELSE "running",
                  op |-> op, cut_and_count |-> cc, given |-> mr, mass_range |-> resolved,
                  vars_ref |-> vr,
                  vars0 |-> IF vr = "caller" THEN callerVars ELSE base.default_vars,
                  hist_args |-> ha]
    /\ nQueries' = nQueries + 1
    /\ returned' = NoResult
    /\ UNCHANGED <<base, fileset, callerVars, inv, made>>
    /\ UNCHANGED ntVars

\* apply_to_fileset calls data_manipulation for the datasets in turn; with
\* sequential = FALSE the calls may interleave
CanStep(d, sequential) ==
    /\ q.status = "running"
    /\ inv[d].pc # "done"
    /\ sequential => \A e \in Datasets : Before(e, d) => inv[e].pc = "done"

\* _make_cutncount_histograms / _make_mll_histograms, up to find_probes
PileupBlock(d, sequential) ==
    /\ CanStep(d, sequential)
    /\ q.op \in HistOps
    /\ inv[d].pc = "idle"
    /\ inv' = [inv EXCEPT ![d].pc = "find", ![d].entry_vars = VarsList,
                           ![d].pileup_corr = pileup_corr(fileset[d]),
                           ![d].stage = stage(q.cut_and_count),
                           ![d].stage_args = stage_args(q.op, q.hist_args)]
    /\ SetVarsList(vars_before_find(fileset[d], VarsList))
    /\ UNCHANGED <<fileset, q, nQueries, returned, made>>
    /\ UNCHANGED ntVars

\* the call of find_probes and, except in get_tnp_arrays, the split on the filter
FindProbes(d, sequential) ==
    /\ CanStep(d, sequential)
    /\ inv[d].pc = (IF q.op \in HistOps THEN "find" ELSE "idle")
    /\ \E probes \in ProbeCollections :
        inv' = [inv EXCEPT
            ![d].pc = IF q.op \in HistOps THEN "weights" ELSE "done",
            ![d].entry_vars = IF q.op \in HistOps THEN @ ELSE VarsList,
            ![d].handed = [cut_and_count |-> IF q.op \in HistOps
                                             THEN stage_cut_and_count(inv[d].stage)
                                             ELSE q.cut_and_count,
                           mass_range |-> q.mass_range,
                           vars |-> VarsList],
            ![d].fields = probes_fields(base, q.cut_and_count, VarsList),
            ![d].probes = probes,
            ![d].passing = IF q.op = "get_tnp_arrays" THEN <<>> ELSE split_passing(probes),
            ![d].failing = IF q.op = "get_tnp_arrays" THEN <<>> ELSE split_failing(probes)]
    /\ UNCHANGED <<base, fileset, callerVars, q, nQueries, returned, made>>
    /\ UNCHANGED ntVars

\* the rest of the histogram stage: the weights, and the call of the filler
WeightsAndFill(d, sequential) ==
    /\ CanStep(d, sequential)
    /\ inv[d].pc = "weights"
    /\ LET after  == vars_after_weights(fileset[d], inv[d].fields, VarsList)
           raises == remove_raises(fileset[d], inv[d].fields, VarsList)
       IN  /\ inv' = [inv EXCEPT
                ![d].pc = IF raises THEN "raised" ELSE "done",
                ![d].PU_weight = weight_field(fileset[d], inv[d].fields) # "",
                ![d].weight_from = weight_field(fileset[d], inv[d].fields),
                ![d].filler = IF raises THEN ""
                              ELSE filler(q.op, stage_cut_and_count(inv[d].stage)),
                ![d].fill_args = IF raises THEN NotPassed
                                 ELSE fill_args(q.op, inv[d].stage_args),
                ![d].fill_vars = IF raises THEN <<>> ELSE after]
           /\ SetVarsList(after)
           /\ q' = [q EXCEPT !.status = IF raises THEN "ValueError in vars.remove" ELSE @]
    /\ UNCHANGED <<fileset, nQueries, returned, made>>
    /\ UNCHANGED ntVars

\* the rest of the query after apply_to_fileset (compute or not, return), or
\* the exception reaches the caller; the caller goes on
Return ==
    /\ \/ q.status \in {"ValueError", "ValueError in vars.remove"}
       \/ q.status = "running" /\ \A d \in Datasets : inv[d].pc = "done"
    /\ IF q.status = "running"
       THEN \E compute \in BOOLEAN :
                returned' = query_result(compute, \A d \in Datasets : inv[d].pc = "done")
       ELSE returned' = Raised
    /\ q' = NoQuery
    /\ inv' = [d \in Datasets |-> NoInv]
    /\ UNCHANGED <<base, fileset, callerVars, nQueries, made>>
    /\ UNCHANGED ntVars

(***************************************************************************)
(* The constructors: how probes_pt_cut is resolved                         *)
(***************************************************************************)
\* the probes_pt_cut argument and attribute: None, a number, or (attribute
\* only) never assigned
NoneCut == [kind |-> "None", value |-> 0]
Number(n) == [kind |-> "number", value |-> n]
NoAttribute == [kind |-> "missing", value |-> 0]

FilterNames == {"hltEle32WPTightGsfTrackIsoFilter", "hltEle23Ele12CaloIdLTrackIdLIsoVLTrackIsoLeg1Filter"}

FilterLists ==
    {<<>>} \cup {<<f>> : f \in FilterNames}
           \cup {<<p[1], p[2]>> : p \in {r \in FilterNames \X FilterNames : r[1] # r[2]}}

GivenCuts == {NoneCut, Number(5), Number(27)}

\* egamma_tnp.utils.misc.find_pt_threshold: the pt threshold in the filter name
find_pt_threshold(filter) ==
    IF filter = "hltEle32WPTightGsfTrackIsoFilter" THEN 32
    ELSE IF filter = "hltEle23Ele12CaloIdLTrackIdLIsoVLTrackIsoLeg1Filter" THEN 23
    ELSE 0

\* BaseTagNProbe.__init__: the attribute probes_pt_cut after the if/elif/else;
\* the elif branch assigns the local name only
Base_probes_pt_cut(filters, probes_pt_cut) ==
    IF probes_pt_cut.kind = "None" /\ Len(filters) = 1
    THEN Number(find_pt_threshold(filters[1]) - 3)
    ELSE IF probes_pt_cut.kind = "None" /\ Len(filters) > 1
    THEN NoAttribute
    ELSE probes_pt_cut

\* TagNProbeFromNTuples.__init__
NT_probes_pt_cut(filter, probes_pt_cut) ==
    IF probes_pt_cut.kind = "None"
    THEN Number(find_pt_threshold(filter) - 3)
    ELSE probes_pt_cut

NoObject == [class |-> "none", filters |-> <<>>, given |-> NoneCut, probes_pt_cut |-> NoAttribute]

\* this behaviour is not about the constructors
CtorAbsent == made = [NoObject EXCEPT !.class = "absent"]

CtorInit == made = NoObject

Base_init ==
    /\ made.class = "none"
    /\ \E filters \in FilterLists, probes_pt_cut \in GivenCuts :
        made' = [class |-> "BaseTagNProbe", filters |-> filters, given |-> probes_pt_cut,
                 probes_pt_cut |-> Base_probes_pt_cut(filters, probes_pt_cut)]
    /\ UNCHANGED returned
    /\ UNCHANGED ntVars
    /\ UNCHANGED baseVars

NT_init ==
    /\ made.class = "none"
    /\ \E filter \in FilterNames, probes_pt_cut \in GivenCuts :
        made' = [class |-> "TagNProbeFromNTuples", filters |-> <<filter>>, given |-> probes_pt_cut,
                 probes_pt_cut |-> NT_probes_pt_cut(filter, probes_pt_cut)]
    /\ UNCHANGED returned
    /\ UNCHANGED ntVars
    /\ UNCHANGED baseVars

\* the caller drops the object
Discard ==
    /\ made.class \notin {"none", "absent"}
    /\ made' = NoObject
    /\ UNCHANGED returned
    /\ UNCHANGED ntVars
    /\ UNCHANGED baseVars

(***************************************************************************)
(* Properties                                                              *)
(***************************************************************************)
Ids(s) == {s[i].id : i \in 1..Len(s)}

NTSelected == ntPc = "done" /\ ntOut.status = "ok"

NTSurvivorIds == Ids(ntOut.passing_probe_events) \cup Ids(ntOut.failing_probe_events)

\* the cuts of _find_probes and _find_probe_events other than the mass window
OtherCuts(e) == pass_tag_cuts(nt, e) /\ pass_cutbased_id(nt, e) /\ pass_pt_probes(nt, e)

\* find_probes has been called for dataset d in the query in progress
FindCalled(d) == inv[d].pc \in {"weights", "done", "raised"}

SplitDone(d) == FindCalled(d) /\ q.op # "get_tnp_arrays"

BaseActive == q.status \notin {"absent", "idle"}

\* C1: the passing and the failing probes are disjoint, and together they are
\* exactly the probes that survived the cuts, each of them once; this holds for
\* _find_probe_events of TagNProbeFromNTuples and for the split on the filter
\* column in get_passing_and_failing_probes and the histogram stages.
C1_Partition ==
    /\ NTSelected =>
        /\ Ids(ntOut.passing_probe_events) \cap Ids(ntOut.failing_probe_events) = {}
        /\ NTSurvivorIds = Ids(ntOut.all_probe_events)
        /\ Len(ntOut.passing_probe_events) + Len(ntOut.failing_probe_events)
             = Len(ntOut.all_probe_events)
        /\ \A i \in 1..Len(ntOut.lumi_events) :
             ~(OtherCuts(ntOut.lumi_events[i])
                 /\ in_mass_window(ntOut.lumi_events[i], ntCall.cut_and_count))
             => ntOut.lumi_events[i].id \notin NTSurvivorIds
    /\ BaseActive =>
        \A d \in Datasets : SplitDone(d) =>
            /\ Ids(inv[d].passing) \cap Ids(inv[d].failing) = {}
            /\ Ids(inv[d].passing) \cup Ids(inv[d].failing) = Ids(inv[d].probes)
            /\ Len(inv[d].passing) + Len(inv[d].failing) = Len(inv[d].probes)

\* C1 witness: a selection with a passing probe and a failing probe whose
\* filter field is neither 1 nor 0
C1_Witness ==
    /\ NTSelected
    /\ Len(ntOut.passing_probe_events) = 1
    /\ Len(ntOut.failing_probe_events) = 1
    /\ ntOut.failing_probe_events[1].filter = 2

\* C2: a mass window whose shape does not match the mode makes the query raise
\* the configuration error with no per-dataset processing invoked.
C2_RejectedBeforeDatasets ==
    BaseActive =>
        /\ ((q.cut_and_count /\ q.given.kind = "tuple")
              \/ (~q.cut_and_count /\ q.given.kind = "scalar"))
           => q.status = "ValueError"
        /\ q.status = "ValueError" => \A d \in Datasets : inv[d] = NoInv

\* C2 witness: a scalar window given to a range-mode N-D histogram query
C2_Witness ==
    /\ q.status = "ValueError"
    /\ q.op = "get_nd_tnp_histograms"
    /\ ~q.cut_and_count
    /\ q.given.kind = "scalar"

\* C3: in cut-and-count mode an event that passes the other cuts is among the
\* passing or failing probes iff |pair_mass - 91.1876| < 30, strictly.
C3_CutAndCountWindow ==
    (NTSelected /\ ntCall.cut_and_count) =>
        \A i \in 1..Len(ntOut.lumi_events) :
            LET e == ntOut.lumi_events[i]
            IN  (e.id \in NTSurvivorIds)
                  <=> (OtherCuts(e) /\ e.pair_mass - 911876 < 300000
                                    /\ 911876 - e.pair_mass < 300000)

\* C3 witness: pairs of mass exactly 61.1876 and 121.1876 that pass every other
\* cut and are not selected
C3_Witness ==
    /\ NTSelected /\ ntCall.cut_and_count
    /\ Len(ntOut.lumi_events) = 2
    /\ ntOut.lumi_events[1].pair_mass = 611876 /\ OtherCuts(ntOut.lumi_events[1])
    /\ ntOut.lumi_events[2].pair_mass = 1211876 /\ OtherCuts(ntOut.lumi_events[2])
    /\ NTSurvivorIds = {}

\* C4: in range mode an event that passes the other cuts is among the passing
\* or failing probes iff 50 < pair_mass < 130, strictly on both sides.
C4_RangeWindow ==
    (NTSelected /\ ~ntCall.cut_and_count) =>
        \A i \in 1..Len(ntOut.lumi_events) :
            LET e == ntOut.lumi_events[i]
            IN  (e.id \in NTSurvivorIds)
                  <=> (OtherCuts(e) /\ 500000 < e.pair_mass /\ e.pair_mass < 1300000)

\* C4 witness: pairs of mass exactly 50 and 130 that pass every other cut and
\* are not selected
C4_Witness ==
    /\ NTSelected /\ ~ntCall.cut_and_count
    /\ Len(ntOut.lumi_events) = 2
    /\ ntOut.lumi_events[1].pair_mass = 500000 /\ OtherCuts(ntOut.lumi_events[1])
    /\ ntOut.lumi_events[2].pair_mass = 1300000 /\ OtherCuts(ntOut.lumi_events[2])
    /\ NTSurvivorIds = {}

\* C5: with mass_range not given the query is never rejected, the window is 30
\* in cut-and-count mode and (50, 130) otherwise, and that value is the one
\* handed to find_probes for every dataset of the query.
C5_DefaultWindow ==
    (BaseActive /\ q.given.kind = "None") =>
        /\ q.status # "ValueError"
        /\ q.mass_range = (IF q.cut_and_count THEN Scalar(300000) ELSE Tuple(500000, 1300000))
        /\ \A d \in Datasets : FindCalled(d) =>
             inv[d].handed.mass_range
               = (IF q.cut_and_count THEN Scalar(300000) ELSE Tuple(500000, 1300000))

\* C5 witness: a range-mode query without mass_range whose two datasets were
\* both handed (50, 130)
C5_Witness ==
    /\ BaseActive /\ q.given.kind = "None" /\ ~q.cut_and_count
    /\ \A d \in Datasets :
         inv[d].pc = "done" /\ inv[d].handed.mass_range = Tuple(500000, 1300000)

\* the window of the shape the mode requires
ShapeMatches(cut_and_count, mass_range) ==
    mass_range.kind = (IF cut_and_count THEN "scalar" ELSE "tuple")

\* C6 as claimed: whenever the caller supplies a window of the mode's shape,
\* the selection is made with the caller's window, in TagNProbeFromNTuples too.
C6_Original ==
    /\ (ntPc = "done" /\ ShapeMatches(ntCall.cut_and_count, ntCall.mass_range)) =>
        /\ ntOut.status = "ok"
        /\ \A i \in 1..Len(ntOut.lumi_events) :
             LET e == ntOut.lumi_events[i]
             IN  (e.id \in NTSurvivorIds)
                   <=> (OtherCuts(e)
                        /\ IF ntCall.cut_and_count
                           THEN Abs(e.pair_mass - 911876) < ntCall.mass_range.a
                           ELSE ntCall.mass_range.a < e.pair_mass
                                /\ e.pair_mass < ntCall.mass_range.b)
    /\ (BaseActive /\ ShapeMatches(q.cut_and_count, q.given)) =>
        \A d \in Datasets : FindCalled(d) => inv[d].handed.mass_range = q.given

\* C6 amended: a BaseTagNProbe query hands a supplied window of the mode's shape
\* unchanged to find_probes for every dataset; a TagNProbeFromNTuples query
\* takes no mass_range (passing one raises TypeError and selects nothing) and
\* every probe it selects lies in the fixed window, 30 around 91.1876 or 50-130.
C6_Amended ==
    /\ (BaseActive /\ ShapeMatches(q.cut_and_count, q.given)) =>
        /\ q.status # "ValueError"
        /\ \A d \in Datasets : FindCalled(d) => inv[d].handed.mass_range = q.given
    /\ (ntPc = "done" /\ ntCall.mass_range # NoMassRange) =>
        /\ ntOut.status = "TypeError"
        /\ NTSurvivorIds = {}
        /\ batch = batch0
    /\ NTSelected =>
        /\ ntCall.mass_range = NoMassRange
        /\ \A i \in 1..Len(ntOut.all_probe_events) :
             LET m == ntOut.all_probe_events[i].pair_mass
             IN  IF ntCall.cut_and_count
                 THEN 611876 < m /\ m < 1211876
                 ELSE 500000 < m /\ m < 1300000

\* C6 witness: a cut-and-count query with half-width 20 whose two datasets were
\* both handed 20
C6_Witness ==
    /\ BaseActive /\ q.cut_and_count /\ q.given = Scalar(200000)
    /\ \A d \in Datasets : inv[d].pc = "done" /\ inv[d].handed.mass_range = Scalar(200000)

\* C7 as claimed: after _find_probes returns, the caller's batch holds the same
\* values as before the call.
C7_BatchUnchanged == NTSelected => batch = batch0

\* the variables the caller asked for
Requested ==
    IF q.vars_ref = "caller" THEN <<"el_pt", "el_sc_eta", "el_phi">>
    ELSE <<"el_pt", "el_eta", "el_phi">>

PileupKeys == {"truePU", "Pileup_nTrueInt"}

\* what an invocation for metadata m selects and fills with when it runs alone
\* on the list vs
AloneFindVars(m, vs) == vars_before_find(m, vs)

AloneFillVars(m, vs) ==
    vars_after_weights(m, probes_fields(base, q.cut_and_count, AloneFindVars(m, vs)),
                       AloneFindVars(m, vs))

\* C8 as claimed: interleaved invocations of the histogram stage that share one
\* vars list each select and fill with the variable list they would use alone,
\* and none of them fails.
C8_AsIfAlone ==
    BaseActive =>
        \A d \in Datasets :
            /\ FindCalled(d) => inv[d].handed.vars = AloneFindVars(fileset[d], q.vars0)
            /\ inv[d].pc = "done" => inv[d].fill_vars = AloneFillVars(fileset[d], q.vars0)
            /\ inv[d].pc # "raised"

\* C9: for a dataset that is not simulated the histogram stage adds nothing to
\* the variable list it gives to find_probes, attaches no PU_weight, and leaves
\* the list as it found it.
C9_SkippedForData ==
    (BaseActive /\ q.op \in HistOps) =>
        \A d \in Datasets : ~fileset[d].isMC =>
            /\ inv[d].pc \in {"find", "weights"} => VarsList = inv[d].entry_vars
            /\ FindCalled(d) => inv[d].handed.vars = inv[d].entry_vars
            /\ ~inv[d].PU_weight /\ inv[d].weight_from = "" /\ inv[d].pileup_corr = ""
            /\ inv[d].pc = "done" => inv[d].fill_vars = inv[d].entry_vars

\* C9 witness: the histogram stage has finished for a dataset that is not
\* simulated but carries a pileupJSON key
C9_Witness ==
    /\ BaseActive /\ q.op \in HistOps
    /\ \E d \in Datasets :
         /\ ~fileset[d].isMC /\ fileset[d].pileupJSON
         /\ inv[d].pc = "done"
         /\ inv[d].fill_vars = Requested

\* C10 as claimed: for every simulated dataset the variable list handed to the
\* histogram filler is the list the caller requested, without the truth-pileup
\* key, with or without a pileup-correction source.
C10_KeyDropped ==
    (BaseActive /\ q.op \in HistOps) =>
        \A d \in Datasets : (fileset[d].isMC /\ inv[d].pc = "done") =>
            /\ inv[d].fill_vars = Requested
            /\ Range(inv[d].fill_vars) \cap PileupKeys = {}

\* the eta and phi columns of event e hold what the configuration selects
Substituted(e) ==
    /\ nt.use_sc_eta => e.el_eta = e.el_sc_eta
    /\ nt.use_sc_phi => e.el_phi = e.el_sc_phi

\* C11 as claimed: the supercluster coordinates are substituted before the
\* external filter is applied and before the luminosity mask, so the batch
\* given to the external filter and the batch that is masked already hold the
\* substituted eta and phi.
C11_SubstitutionFirst ==
    NTSelected =>
        /\ \A i \in 1..Len(ntOut.extra_filter_arg) : Substituted(ntOut.extra_filter_arg[i])
        /\ \A i \in 1..Len(ntOut.lumimask_arg) : Substituted(ntOut.lumimask_arg[i])

\* C12: a configured external filter is given the whole incoming batch, with
\* the configured arguments, before any built-in cut; every later stage works
\* on the batch it returned; with no filter configured the stage removes no
\* event.
C12_ExternalFilterFirst ==
    NTSelected =>
        /\ nt.extra_filter # None => ntOut.extra_filter_arg = batch0
        /\ nt.extra_filter = "barrel" =>
             Ids(ntOut.filtered_events)
               = {batch0[i].id : i \in {j \in 1..Len(batch0) :
                                          Abs(batch0[j].el_eta) < nt.extra_filter_args.max_abseta}}
        /\ nt.extra_filter \in {None, "same"} => ntOut.filtered_events = batch0
        /\ nt.goldenjson # None => ntOut.lumimask_arg = ntOut.filtered_events
        /\ nt.goldenjson = None => ntOut.lumi_events = ntOut.filtered_events
        /\ Ids(ntOut.lumi_events) \subseteq Ids(ntOut.filtered_events)
        /\ NTSurvivorIds \subseteq Ids(ntOut.filtered_events)

\* C12 witness: the barrel filter removed an event that passes every built-in
\* cut, and the other event of the batch was selected
C12_Witness ==
    /\ NTSelected /\ nt.extra_filter = "barrel" /\ nt.goldenjson # None
    /\ Len(batch0) = 2
    /\ batch0[1].el_eta = 12 /\ OtherCuts(batch0[1]) /\ LumiMask(nt.goldenjson, batch0[1])
    /\ NTSurvivorIds = {2}

IdSeq(s) == [i \in 1..Len(s) |-> s[i].id]

PtSeq(s) == [i \in 1..Len(s) |-> s[i].pt]

\* the selection of the same batch with both substitutions disabled
WithoutSc == NT_find_probes([nt EXCEPT !.use_sc_eta = FALSE, !.use_sc_phi = FALSE],
                            batch0, ntCall.cut_and_count)

\* C13: with use_sc_eta and/or use_sc_phi enabled the passing and the failing
\* events are the events selected with both disabled, in the same order and with
\* the same pt; only the reported eta and phi differ.
C13_SameSurvivors ==
    NTSelected =>
        /\ IdSeq(ntOut.passing_probe_events) = IdSeq(WithoutSc.passing_probe_events)
        /\ IdSeq(ntOut.failing_probe_events) = IdSeq(WithoutSc.failing_probe_events)
        /\ PtSeq(ntOut.passing_probes) = PtSeq(WithoutSc.passing_probes)
        /\ PtSeq(ntOut.failing_probes) = PtSeq(WithoutSc.failing_probes)

\* C13 witness: with the supercluster eta in use and an external filter that
\* cuts on eta, a probe is selected and reported with its supercluster eta,
\* which the filter would have rejected
C13_Witness ==
    /\ NTSelected /\ nt.use_sc_eta /\ nt.extra_filter = "barrel"
    /\ Len(ntOut.passing_probes) = 1
    /\ ntOut.passing_probes[1].eta = 12
    /\ WithoutSc.passing_probes[1].eta = 10

\* C14: the selection run twice in succession on the same batch with the same
\* configuration returns the same passing and failing collections both times.
C14_Idempotent ==
    ntPc = "again" =>
        /\ ntOut.passing_probes = ntPrev.passing_probes
        /\ ntOut.failing_probes = ntPrev.failing_probes
        /\ ntOut.passing_fields = ntPrev.passing_fields
        /\ ntOut.failing_fields = ntPrev.failing_fields

\* C14 witness: a second run with the supercluster phi in use that returned a
\* passing and a failing probe
C14_Witness ==
    /\ ntPc = "again" /\ nt.use_sc_phi
    /\ Len(ntOut.passing_probes) = 1 /\ ntOut.passing_probes[1].phi = 4
    /\ Len(ntOut.failing_probes) = 1

ScenarioConfig ==
    /\ nt.tags_pt_cut = 35 /\ nt.probes_pt_cut = 5
    /\ nt.cutbased_id = None /\ nt.extra_filter = None /\ nt.goldenjson = None

\* C15: for the scenario batch, cut-and-count selection with tags_pt_cut 35 and
\* probes_pt_cut 5 (no identification, no external filter, no golden JSON)
\* returns event 1 as the only passing probe and no failing probe.
C15_Scenario ==
    (NTSelected /\ batch0 = ScenarioBatch /\ ntCall.cut_and_count /\ ScenarioConfig) =>
        /\ IdSeq(ntOut.passing_probe_events) = <<1>>
        /\ ntOut.failing_probe_events = <<>>
        /\ ntOut.passing_probes = <<[pt |-> 30, eta |-> ntOut.passing_probe_events[1].el_eta,
                                     phi |-> ntOut.passing_probe_events[1].el_phi]>>
        /\ ntOut.failing_probes = <<>>

\* C15 witness: the scenario has been run
C15_Witness ==
    /\ NTSelected /\ batch0 = ScenarioBatch /\ ntCall.cut_and_count /\ ScenarioConfig
    /\ Len(ntOut.lumi_events) = 4
    /\ Len(ntOut.passing_probes) = 1

\* C18: an event of the batch left by the external filter and the luminosity
\* mask is among the passing or failing probes iff its tag pt is above
\* tags_pt_cut, its tag |eta| below tags_abseta_cut, tag charge times probe
\* charge is -1, its probe pt is above probes_pt_cut, its cut-based field is 1
\* when an identification is configured, and its pair mass is in the window of
\* the mode; with a golden JSON only events whose mask value is true appear.
C18_FullCut ==
    NTSelected =>
        /\ \A i \in 1..Len(ntOut.lumi_events) :
             LET e == ntOut.lumi_events[i]
             IN  (e.id \in NTSurvivorIds)
                   <=> /\ e.tag_Ele_pt > nt.tags_pt_cut
                       /\ e.tag_Ele_eta < nt.tags_abseta_cut
                       /\ -e.tag_Ele_eta < nt.tags_abseta_cut
                       /\ e.tag_Ele_q * e.el_q = -1
                       /\ e.el_pt > nt.probes_pt_cut
                       /\ (nt.cutbased_id # None => e.cutbased = 1)
                       /\ IF ntCall.cut_and_count
                          THEN e.pair_mass - 911876 < 300000 /\ 911876 - e.pair_mass < 300000
                          ELSE 500000 < e.pair_mass /\ e.pair_mass < 1300000
        /\ NTSurvivorIds \subseteq Ids(ntOut.lumi_events)
        /\ nt.goldenjson # None =>
             \A i \in 1..Len(batch0) :
                 batch0[i].id \in NTSurvivorIds => LumiMask(nt.goldenjson, batch0[i])

\* C18 witness: with an identification and a golden JSON configured, a probe
\* whose pt equals probes_pt_cut is not selected and the other event is
C18_Witness ==
    /\ NTSelected /\ nt.cutbased_id # None /\ nt.goldenjson # None
    /\ Len(ntOut.lumi_events) = 2
    /\ ntOut.lumi_events[1].el_pt = nt.probes_pt_cut
    /\ NTSurvivorIds = {2}

\* C19: a surviving probe is labeled passing iff its filter decision field is
\* 1, and failing for every other value of the field.
C19_LabelByFilter ==
    NTSelected =>
        \A i \in 1..Len(ntOut.all_probe_events) :
            LET e == ntOut.all_probe_events[i]
            IN  /\ (e.id \in Ids(ntOut.passing_probe_events)) <=> (e.filter = 1)
                /\ (e.id \in Ids(ntOut.failing_probe_events)) <=> (e.filter # 1)

\* C19 witness: two surviving probes whose filter fields are 0 and 2 are both
\* labeled failing
C19_Witness ==
    /\ NTSelected
    /\ Len(ntOut.all_probe_events) = 2
    /\ ntOut.all_probe_events[1].filter = 0
    /\ ntOut.all_probe_events[2].filter = 2
    /\ IdSeq(ntOut.failing_probe_events) = <<1, 2>>
    /\ ntOut.passing_probe_events = <<>>

\* C20: the passing and the failing probes have the fields pt, eta, phi in
\* cut-and-count mode and pt, eta, phi, pair_mass in range mode, the same for
\* both collections.
C20_PairMassColumn ==
    NTSelected =>
        LET fields == IF ntCall.cut_and_count THEN {"pt", "eta", "phi"}
                      ELSE {"pt", "eta", "phi", "pair_mass"}
        IN  /\ ntOut.passing_fields = fields
            /\ ntOut.failing_fields = fields
            /\ \A i \in 1..Len(ntOut.passing_probes) : DOMAIN ntOut.passing_probes[i] = fields
            /\ \A i \in 1..Len(ntOut.failing_probes) : DOMAIN ntOut.failing_probes[i] = fields

\* C20 witness: a range-mode selection with a passing and a failing probe that
\* carry their pair mass
C20_Witness ==
    /\ NTSelected /\ ~ntCall.cut_and_count
    /\ Len(ntOut.passing_probes) = 1 /\ ntOut.passing_probes[1].pair_mass = 500001
    /\ Len(ntOut.failing_probes) = 1 /\ ntOut.failing_probes[1].pair_mass = 911876

\* C16 as claimed: a constructed BaseTagNProbe has a numeric probes_pt_cut,
\* whatever probes_pt_cut was given and however many filters are configured;
\* the threshold is never missing or None once the constructor has returned.
C16_ThresholdResolved ==
    made.class = "BaseTagNProbe" => made.probes_pt_cut.kind = "number"

\* C17: no query executes anything before apply_to_fileset has built the
\* description for every dataset; with compute false the query returns that
\* description and dask.compute is not called, with compute true dask.compute
\* is called once and its result is returned.
C17_TwoPhase ==
    /\ (BaseActive \/ ntPc \in {"done", "again"}) => returned = NoResult
    /\ returned.value \notin {"none", "raised"} =>
        /\ returned.built
        /\ ~returned.compute => (returned.value = "to_compute" /\ returned.computes = 0)
        /\ returned.compute => (returned.value = "computed[0]" /\ returned.computes = 1)

\* C17 witness: a BaseTagNProbe query with compute true has returned the
\* materialized result
C17_Witness ==
    /\ q.status = "idle"
    /\ returned.compute
    /\ returned.built
    /\ returned.value = "computed[0]"

\* the truth-pileup field of the events of a dataset
OwnKey(d) == IF fileset[d].truePU THEN "truePU" ELSE "Pileup_nTrueInt"

\* C21 as claimed: in the histogram stages PU_weight is attached iff the
\* dataset is simulated and has a correction source (pileupJSON, or pileupData
\* and pileupMC); it is attached after the selection and before the filler is
\* called, computed from truePU when the batch has that field and from
\* Pileup_nTrueInt otherwise, with the correction of pileupJSON when there is
\* one; a simulated dataset without a correction source completes without an
\* error and without the column.
C21_PileupWeight ==
    (BaseActive /\ q.op \in HistOps) =>
        \A d \in Datasets :
            LET m == fileset[d]
                source == m.isMC /\ (m.pileupJSON \/ (m.pileupData /\ m.pileupMC))
            IN  /\ inv[d].pc # "raised"
                /\ inv[d].pc \in {"idle", "find", "weights"} => ~inv[d].PU_weight
                /\ inv[d].pc = "done" =>
                    /\ inv[d].PU_weight <=> source
                    /\ inv[d].filler # ""
                    /\ source =>
                        /\ inv[d].weight_from = OwnKey(d)
                        /\ inv[d].pileup_corr
                             = (IF m.pileupJSON THEN "load_correction(pileupJSON)"
                                ELSE "create_correction(pileupData, pileupMC)")
                    /\ ~source => inv[d].weight_from = ""

\* C22: a histogram query with cut_and_count true selects in cut-and-count
\* mode and calls the cut-and-count filler, with cut_and_count false it selects
\* in range mode and calls the mass-spectrum filler; the N-D query gives its
\* stage no plateau cut and no region mapping whatever the caller configured,
\* and the 1-D query forwards the caller's plateau cut and three region
\* mappings unchanged.
C22_Dispatch ==
    (BaseActive /\ q.op \in HistOps) =>
        \A d \in Datasets :
            /\ FindCalled(d) => inv[d].handed.cut_and_count = q.cut_and_count
            /\ inv[d].pc = "done" =>
                /\ inv[d].filler
                     = (IF q.op = "get_1d_pt_eta_phi_tnp_histograms"
                        THEN IF q.cut_and_count THEN "fill_pt_eta_phi_cutncount_histograms"
                             ELSE "fill_pt_eta_phi_mll_histograms"
                        ELSE IF q.cut_and_count THEN "fill_nd_cutncount_histograms"
                             ELSE "fill_nd_mll_histograms")
                /\ q.op = "get_nd_tnp_histograms" =>
                    /\ inv[d].stage_args.plateau_cut = "None"
                    /\ inv[d].stage_args.eta_regions_pt = "None"
                    /\ inv[d].stage_args.eta_regions_eta = "None"
                    /\ inv[d].stage_args.eta_regions_phi = "None"
                    /\ inv[d].fill_args = NotPassed
                /\ q.op = "get_1d_pt_eta_phi_tnp_histograms" =>
                    /\ inv[d].stage_args = q.hist_args
                    /\ inv[d].fill_args = q.hist_args

\* C22 witness: a range-mode 1-D query with a plateau cut and region mappings
\* has filled both datasets with the mass-spectrum filler
C22_Witness ==
    /\ BaseActive /\ q.op = "get_1d_pt_eta_phi_tnp_histograms" /\ ~q.cut_and_count
    /\ q.hist_args = CustomHistArgs
    /\ \A d \in Datasets :
         /\ inv[d].pc = "done"
         /\ inv[d].filler = "fill_pt_eta_phi_mll_histograms"
         /\ inv[d].fill_args.plateau_cut = "35"

\* the lists as the constructor and the caller made them
InitialDefaultVars == <<"el_pt", "el_eta", "el_phi">>

InitialCallerVars == <<"el_pt", "el_sc_eta", "el_phi">>

\* C23 as claimed: whenever no histogram stage is running, the caller's vars
\* list and default_vars hold what they held before the first invocation, and
\* every dataset's selection is given the caller's variables plus at most the
\* dataset's own truth-pileup key, whatever was processed before.
C23_VarsRestored ==
    /\ q.status = "idle" =>
        /\ callerVars = InitialCallerVars
        /\ base.default_vars = InitialDefaultVars
    /\ (BaseActive /\ q.op \in HistOps) =>
        \A d \in Datasets : FindCalled(d) =>
            inv[d].handed.vars
              = (IF fileset[d].isMC THEN Append(Requested, OwnKey(d)) ELSE Requested)

\* C24 as claimed: a threshold given to a constructor is stored unchanged; with
\* none given BaseTagNProbe stores the threshold inferred from its filter's
\* name minus 3 when it has one filter and 5 when it has more than one, and
\* TagNProbeFromNTuples stores the inferred threshold of its filter minus 3.
C24_ThresholdStored ==
    /\ (made.class \in {"BaseTagNProbe", "TagNProbeFromNTuples"} /\ made.given.kind = "number") =>
        made.probes_pt_cut = made.given
    /\ (made.class = "BaseTagNProbe" /\ made.given.kind = "None" /\ Len(made.filters) = 1) =>
        made.probes_pt_cut = Number(find_pt_threshold(made.filters[1]) - 3)
    /\ (made.class = "BaseTagNProbe" /\ made.given.kind = "None" /\ Len(made.filters) > 1) =>
        made.probes_pt_cut = Number(5)
    /\ (made.class = "TagNProbeFromNTuples" /\ made.given.kind = "None") =>
        made.probes_pt_cut = Number(find_pt_threshold(made.filters[1]) - 3)

\* Either class is constructed and queried; apply_to_fileset calls
\* data_manipulation for one dataset after the other.
Init ==
    \/ (NTInit /\ BaseAbsent /\ CtorAbsent /\ NothingReturned)
    \/ (BaseInit /\ NTAbsent /\ CtorAbsent /\ NothingReturned)
    \/ (CtorInit /\ NTAbsent /\ BaseAbsent /\ NothingReturned)

Next ==
    \/ NT_get_tnp_arrays
    \/ NT_find_probes_again
    \/ NT_return
    \/ Query(Ops)
    \/ \E d \in Datasets : PileupBlock(d, TRUE)
    \/ \E d \in Datasets : FindProbes(d, TRUE)
    \/ \E d \in Datasets : WeightsAndFill(d, TRUE)
    \/ Return
    \/ Base_init
    \/ NT_init
    \/ Discard

Spec == Init /\ [][Next]_vars

\* The histogram queries of BaseTagNProbe with the invocations of
\* data_manipulation for the datasets of one query interleaved.
NextInterleaved ==
    \/ Query(HistOps)
    \/ \E d \in Datasets : PileupBlock(d, FALSE)
    \/ \E d \in Datasets : FindProbes(d, FALSE)
    \/ \E d \in Datasets : WeightsAndFill(d, FALSE)
    \/ Return

InitInterleaved == BaseInit /\ NTAbsent /\ CtorAbsent /\ NothingReturned

SpecInterleaved == InitInterleaved /\ [][NextInterleaved]_vars

====
